---- MODULE Spec2Model ----
(***************************************************************************)
(* Model of the two engines of cost-eco-model-linker:                      *)
(*   - the ecological indicator engine (src/src/calculate_metrics.py):     *)
(*     indicator_params, reef_condition_rme, rti_rme, rfi_rme;             *)
(*   - the cost sampling engine (src/src/cost_calculations.py):            *)
(*     get_N, cost_types, initialise_cost_df, update_factors,              *)
(*     update_setupcost_factors, calculate_costs.                          *)
(*                                                                         *)
(* Numbers.  The program computes in floating point; the model computes    *)
(* exactly, in scaled integers:                                            *)
(*   - metrics, thresholds and categories are in thousandths (0.9 = 900);  *)
(*   - RTI is in millionths (0.291 * 0.6 = 291 * 600 = 174600);            *)
(*   - raw CoTS density and relative shelter volume are in thousandths,    *)
(*     raw cover and rubble in percent, juveniles in counts;               *)
(*   - ledger values are in tenths of a cost unit (cont_p = 0.8 = 8/10).   *)
(* The two non-finite floats a division by a zero baseline produces are    *)
(* the values NaN and PosInf below.                                        *)
(***************************************************************************)
EXTENDS Integers, Sequences, FiniteSets, TLC

VARIABLES
    \* ---- indicator engine ----
    ipc,               \* position in indicator_master: "params", "rme", "rti", "rfi", "done",
                       \* "error"
    results_data,      \* the raw result set, [name -> array]
    G,                 \* the expert pool table (rows of responses, six metric columns)
    scen_ids,          \* the scenario ids to consider (a sequence)
    nsims,             \* the requested number of simulations
    uncertainty_dict,  \* the uncertainty switches
    params,            \* what indicator_params returned
    curr_eco_sim,      \* the scenario id drawn for each simulation
    ecol_indicators,   \* what reef_condition_rme / rti_rme returned
    \* ---- cost engine ----
    cpc,               \* position in calculate_costs: "scen", "sample", "setup", "write",
                       \* "drop", "to_csv", "done", "error"
    ID_key,            \* the intervention key table (a sequence of rows)
    n_draws,           \* number of draws asked for
    design_shape,      \* <<factors_df_dep.shape[1], factors_df_prod.shape[1]>> as sampled
    n_factors,         \* min number of factors of the two cost models
    evaluator,         \* which response table the cost-model evaluators follow
    scen_queue,        \* scenario ids np.unique(ID_key.ID) still has to yield
    scen_id,           \* the scenario being processed
    n_reps,
    int_years,         \* ID_key.intervention_years[scen_idx]
    N,
    cost_df,           \* the ledger of the scenario: [year -> [component -> [draw -> value]]]
    int_yr_idx,        \* position in int_years (1-based)
    rep,               \* 0-based, as in range(n_reps)
    factors_df_dep,    \* the deployment factor design
    factors_df_prod,   \* the production factor design
    csv,               \* the ledgers written out, [scenario id -> ledger]
    \* ---- aggregator (create_economics_metric_files) ----
    apc,               \* position in create_economics_metric_files: "loop", "iv", "cf",
                       \* "done", "error"
    metrics,           \* the transforms to apply (a sequence of their names)
    data_store,        \* the base table: its columns and the values of the sim columns
    iv_queue,          \* the intervention ids the loop still has to yield
    iv_idx,            \* the intervention being processed
    met_queue,         \* the transforms still to apply for this intervention
    metrics_data_iv,   \* extract_metrics of the intervention scenarios
    metrics_data_cf,   \* extract_metrics of the counterfactual scenarios
    files,             \* the csv files written, [name -> table]
    id_key_df_store    \* the intervention key rows recorded

ivars == <<ipc, results_data, G, scen_ids, nsims, uncertainty_dict, params,
           curr_eco_sim, ecol_indicators>>

cvars == <<cpc, ID_key, n_draws, design_shape, n_factors, evaluator, scen_queue, scen_id, n_reps,
           int_years, N, cost_df, int_yr_idx, rep, factors_df_dep, factors_df_prod, csv>>

avars == <<apc, metrics, data_store, iv_queue, iv_idx, met_queue, metrics_data_iv,
           metrics_data_cf, files, id_key_df_store>>

vars == <<ivars, cvars, avars>>

(***************************************************************************)
(* Bounds of the model.                                                    *)
(***************************************************************************)
MaxSims == 2                      \* nsims ranges over 1..MaxSims
Scens == {1, 2}                   \* scenario ids held by the result set
Reefs == {1}
Years == {0, 1}                   \* year indices of the result set
JuvVals == {0, 1, 2}              \* juvenile counts
ScenIdLists == {<<1>>, <<2>>, <<1, 2>>}
NoiseVals == {-163, 652, 2000}    \* draws of normal(0, 0.163), in thousandths
RfiNoiseVals == {<<-195000, 5330>>}
                                  \* draws of <<normal(0, 0.195), normal(0, 533)>>, in
                                  \* millionths and in tenths
\* the settings of the five uncertainty switches that are explored with the
\* expert-median thresholds: all off, the replicate sampling alone, the
\* defaults but for the experts, all but the replicate sampling and the experts
UncertaintyDicts ==
    { [ecol_uncert |-> 0, shelt_uncert |-> 0, expert_uncert |-> 0, rti_uncert |-> 0, rfi_uncert |-> 0],
      [ecol_uncert |-> 1, shelt_uncert |-> 0, expert_uncert |-> 0, rti_uncert |-> 0, rfi_uncert |-> 0],
      [ecol_uncert |-> 1, shelt_uncert |-> 0, expert_uncert |-> 0, rti_uncert |-> 1, rfi_uncert |-> 1],
      [ecol_uncert |-> 0, shelt_uncert |-> 1, expert_uncert |-> 0, rti_uncert |-> 1, rfi_uncert |-> 1] }
\* and with sampled expert thresholds: the defaults, the experts alone
ExpertDicts ==
    { [ecol_uncert |-> 1, shelt_uncert |-> 0, expert_uncert |-> 1, rti_uncert |-> 1, rfi_uncert |-> 1],
      [ecol_uncert |-> 1, shelt_uncert |-> 0, expert_uncert |-> 1, rti_uncert |-> 0, rfi_uncert |-> 0] }
MaxPool == 6                      \* the expert pool holds 5..MaxPool experts

(***************************************************************************)
(* Non-finite floats.                                                      *)
(***************************************************************************)
NaN == -1000000
PosInf == 1000000

IsFinite(x) == x # NaN /\ x # PosInf

\* x >= c as numpy evaluates it: False when x is nan, True when x is +inf.
Geq(x, c) == x # NaN /\ x >= c

\* a / b for a >= 0, b >= 0, scaled to thousandths (numpy: 0/0 = nan, a/0 = inf)
DivMilli(a, b) ==
    IF b = 0 THEN (IF a = 0 THEN NaN ELSE PosInf)
    ELSE (a * 1000) \div b

RECURSIVE SumTo(_, _)
\* f[1] + ... + f[n]
SumTo(f, n) == IF n = 0 THEN 0 ELSE f[n] + SumTo(f, n - 1)

Max(S) == CHOOSE x \in S : \A y \in S : y <= x
Min(S) == CHOOSE x \in S : \A y \in S : x <= y

Range(s) == {s[i] : i \in DOMAIN s}

(***************************************************************************)
(* Program constants of calculate_metrics.py.                              *)
(***************************************************************************)
criteria_threshold == 600            \* 0.6
cots_outbreak_threshold == 200       \* 0.2
n_metrics == 5
crit_val == <<900, 700, 500, 300>>   \* [0.9, 0.7, 0.5, 0.3]
ncrits == Len(crit_val)
rti_intercept_mean == -498           \* -0.498
juv_max_years == <<0, 1>>            \* the window [lo, hi) of baseline years
intercept1_mean == 1232000           \* 1.232, in millionths
intercept2_mean == -16236            \* -1623.6, in tenths
slope1 == 7476                       \* 0.007476, in millionths
slope2 == 18833                      \* 1883.3, in tenths

(***************************************************************************)
(* Inputs: raw result sets.  A scenario's cover, shelter volume, CoTS and  *)
(* rubble follow one of a few profiles (constant over reefs and years);    *)
(* juveniles vary by year.                                                 *)
(***************************************************************************)
ngroups == 6

ProfileSet ==
    { [cover |-> 15, rsv |-> 200, cots |-> 0,   rubble |-> 0],    \* 0.9, 1, 1, 1
      [cover |-> 10, rsv |-> 60,  cots |-> 50,  rubble |-> 30],   \* 0.6, 0.6, 0.75, 0.7
      [cover |-> 10, rsv |-> 20,  cots |-> 50,  rubble |-> 30],   \* 0.6, 0.2, 0.75, 0.7
      [cover |-> 5,  rsv |-> 40,  cots |-> 100, rubble |-> 50],   \* 0.3, 0.4, 0.5, 0.5
      [cover |-> 0,  rsv |-> 0,   cots |-> 400, rubble |-> 100] } \* 0, 0, 0, 0

MakeResultsOf(prof, juv, groups) ==
    [ cots |-> [s \in Scens |-> [r \in Reefs |-> [y \in Years |-> prof[s].cots]]],
      total_taxa_cover |->
          [s \in Scens |-> [g \in 1..groups |-> [r \in Reefs |-> [y \in Years |-> prof[s].cover]]]],
      nb_coral_juv |-> [s \in Scens |-> [r \in Reefs |-> [y \in Years |-> juv[y]]]],
      rubble |-> [s \in Scens |-> [r \in Reefs |-> [y \in Years |-> prof[s].rubble]]],
      relative_shelter_volume |->
          [s \in Scens |-> [r \in Reefs |-> [y \in Years |-> prof[s].rsv]]] ]

MakeResults(prof, juv) == MakeResultsOf(prof, juv, ngroups)

(***************************************************************************)
(* Inputs: threshold matrices (the content of the criteria tables), rows = *)
(* tiers 0.9, 0.7, 0.5, 0.3, columns = the five metrics.                   *)
(***************************************************************************)
UniformCrit(levels) == [t \in 1..4 |-> [m \in 1..5 |-> levels[t]]]

CritSet ==
    { <<<<900, 1000, 1000, 1000, 1000>>, <<600, 600, 700, 750, 700>>,
        <<300, 400, 500, 500, 500>>,     <<100, 100, 200, 200, 200>>>>,
      UniformCrit(<<900, 700, 500, 300>>),
      UniformCrit(<<800, 600, 400, 200>>),
      UniformCrit(<<300, 500, 700, 900>>) }

NoParams == [maxcoraljuv |-> 0, experts |-> <<>>, rci_crit |-> <<>>, rti_intercept |-> 0,
             intercept1 |-> 0, intercept2 |-> 0]

(***************************************************************************)
(* Inputs: expert pool tables (the content of the all-results table after  *)
(* its first two columns are cut off).  Each expert answers 5 rows; row r  *)
(* (0-based) is the answer of expert r mod num_experts, the layout the     *)
(* stride of lines 79-84 reads.  The value names its expert, its row and   *)
(* its column.                                                             *)
(***************************************************************************)
n_expert_rows == 5
n_expert_draws == 6

Response(e, k, j) == <<900, 700, 500, 300, 100>>[k + 1] - (10 * e) + j

ExpertPool(P) ==
    [r \in 1..(n_expert_rows * P) |->
        [j \in 1..6 |-> Response((r - 1) % P, (r - 1) \div P, j - 1)]]
NoIndicators == [set |-> FALSE]

(***************************************************************************)
(* indicator_params                                                        *)
(***************************************************************************)
\* np.max(result_set["nb_coral_juv"][scen_ids, :, lo:hi])
JuvBaseline(rd, ids, window) ==
    Max({ rd.nb_coral_juv[s][r][y] :
            s \in Range(ids), r \in Reefs,
            y \in {yy \in Years : window[1] <= yy /\ yy < window[2]} })

RtiIntercepts(ud) ==
    IF ud.rti_uncert = 0 THEN {rti_intercept_mean}
    ELSE {rti_intercept_mean + n : n \in NoiseVals}

\* lines 95-101: <<intercept1, intercept2>>
RfiIntercepts(ud) ==
    IF ud.rfi_uncert = 0 THEN {<<intercept1_mean, intercept2_mean>>}
    ELSE {<<intercept1_mean + n[1], intercept2_mean + n[2]>> : n \in RfiNoiseVals}

\* line 74: int(G.shape[0]/5)
num_experts(pool) == Len(pool) \div n_expert_rows

\* line 75: random.sample(range(n), k), the draws of k indices without
\* replacement; none when k > n (ValueError)
random_sample(n, k) ==
    {s \in [1..k -> 0..(n - 1)] : \A a \in 1..k, b \in 1..k : a # b => s[a] # s[b]}

\* lines 79-84 with the first expert drawn read for every column
ExpertCrit_FirstExpert(pool, experts) ==
    [j \in 1..n_expert_draws |->
        [k \in 1..n_expert_rows |-> pool[experts[1] + ((k - 1) * num_experts(pool)) + 1][j]]]

\* lines 79-84: one row per column j of the pool, G[experts[j]:G_len:num_experts, j]
ExpertCrit(pool, experts) ==
    [j \in 1..n_expert_draws |->
        [k \in 1..n_expert_rows |-> pool[experts[j] + ((k - 1) * num_experts(pool)) + 1][j]]]

\* lines 66-84: <<experts, rci_crit>>
CritChoices(ud, pool) ==
    IF ud.expert_uncert = 0 THEN {<<<<>>, crit>> : crit \in CritSet}
    ELSE {<<e, ExpertCrit(pool, e)>> : e \in random_sample(num_experts(pool), n_expert_draws)}

indicator_params ==
    /\ ipc = "params"
    /\ \E ch \in CritChoices(uncertainty_dict, G), ic \in RtiIntercepts(uncertainty_dict),
          fc \in RfiIntercepts(uncertainty_dict) :
         params' = [ maxcoraljuv |-> JuvBaseline(results_data, scen_ids, juv_max_years),
                     experts |-> ch[1],
                     rci_crit |-> ch[2],
                     rti_intercept |-> ic,
                     intercept1 |-> fc[1],
                     intercept2 |-> fc[2] ]
    /\ ipc' = "rme"
    /\ UNCHANGED <<results_data, G, scen_ids, nsims, uncertainty_dict, curr_eco_sim,
                   ecol_indicators, cvars, avars>>

\* line 75 with fewer than 6 experts in the pool: random.sample raises
\* ValueError
indicator_params_fails ==
    /\ ipc = "params"
    /\ uncertainty_dict.expert_uncert = 1
    /\ num_experts(G) < n_expert_draws
    /\ ipc' = "error"
    /\ UNCHANGED <<results_data, G, scen_ids, nsims, uncertainty_dict, params,
                   curr_eco_sim, ecol_indicators, cvars, avars>>

(***************************************************************************)
(* reef_condition_rme                                                      *)
(***************************************************************************)
Cells(n) == (1..n) \X Reefs \X Years

\* line:  a[a >= thr] = val   applied to one element
Overwrite(x, thr, val) == IF x >= thr THEN val ELSE x

ClipHi(x, hi) == IF x > hi THEN hi ELSE x
ClipLo(x, lo) == IF x < lo THEN lo ELSE x

total_cover(cover, i, r, y) ==
    SumTo([g \in 1..Len(cover[i]) |-> cover[i][g][r][y]], Len(cover[i])) * 10

coraljuv_relative(juv, maxcoraljuv) == DivMilli(juv, maxcoraljuv)

shelterVolume(rsv) == ClipLo(ClipHi(rsv * 10, 1000), 0)

COTSrel(cots) == ClipHi(ClipLo((cots * 1000) \div cots_outbreak_threshold, 0), 1000)

COTSrel_complementary(cots) == 1000 - COTSrel(cots)

rubble_complementary(rubble) == (100 - rubble) * 10

\* the five metrics of one cell, in the column order of rci_crit
MetricVec(ind, i, r, y) ==
    << ind.total_cover[i][r][y], ind.shelter_volume[i][r][y],
       ind.coraljuv_relative[i][r][y], ind.COTSrel_complementary[i][r][y],
       ind.rubble_complementary[i][r][y] >>

\* np.sum(rci_mask, axis=3) for one cell and one tier
MetCount(mv, rci_crit, curr_crit) ==
    Cardinality({m \in 1..n_metrics : Geq(mv[m], rci_crit[curr_crit][m])})

\* curr_mask with line 224 comparing with > for >=
curr_mask_StrictThreshold(mv, rci_crit, curr_crit) ==
    LET frac == (MetCount(mv, rci_crit, curr_crit) * 1000) \div n_metrics
    IN  IF frac <= criteria_threshold THEN 0 ELSE crit_val[curr_crit]

\* curr_mask of one cell after the two masked assignments
curr_mask(mv, rci_crit, curr_crit) ==
    LET frac == (MetCount(mv, rci_crit, curr_crit) * 1000) \div n_metrics
    IN  IF frac < criteria_threshold THEN 0 ELSE crit_val[curr_crit]

\* reefcondition of one cell after the loop over the tiers
CreditSum(mv, rci_crit) ==
    SumTo([t \in 1..ncrits |-> curr_mask(mv, rci_crit, t)], ncrits)

RECURSIVE CumSumTo(_, _)
CumSumTo(s, k) == IF k = 0 THEN 0 ELSE s[k] + CumSumTo(s, k - 1)
\* np.cumsum(crit_val)
crit_thresh == [k \in 1..ncrits |-> CumSumTo(crit_val, k)]

\* the masked assignments without line 233
MapCategory_NoDefault(rc) ==
    LET r1 == Overwrite(rc, crit_thresh[ncrits - 3], 300)
        r2 == Overwrite(r1, crit_thresh[ncrits - 2], 500)
        r3 == Overwrite(r2, crit_thresh[ncrits - 1], 700)
    IN  Overwrite(r3, crit_thresh[ncrits], 900)

\* the masked assignments that follow the loop, in program order
MapCategory(rc) ==
    LET r1 == Overwrite(rc, crit_thresh[ncrits - 3], 300)
        r2 == Overwrite(r1, crit_thresh[ncrits - 2], 500)
        r3 == Overwrite(r2, crit_thresh[ncrits - 1], 700)
        r4 == Overwrite(r3, crit_thresh[ncrits], 900)
    IN  IF r4 = 0 THEN 100 ELSE r4

reefcondition(mv, rci_crit) == MapCategory(CreditSum(mv, rci_crit))

\* lines 154-159 with the COTS array indexed by the first draw only
Indicators_CotsOfFirstDraw(rd, sims, n, p) ==
    LET tc  == [i \in 1..n |-> [r \in Reefs |-> [y \in Years |->
                   total_cover(rd.total_taxa_cover, sims[i], r, y)]]]
        sv  == [i \in 1..n |-> [r \in Reefs |-> [y \in Years |->
                   shelterVolume(rd.relative_shelter_volume[sims[i]][r][y])]]]
        jr  == [i \in 1..n |-> [r \in Reefs |-> [y \in Years |->
                   coraljuv_relative(rd.nb_coral_juv[sims[i]][r][y], p.maxcoraljuv)]]]
        cc  == [i \in 1..n |-> [r \in Reefs |-> [y \in Years |->
                   COTSrel_complementary(rd.cots[sims[1]][r][y])]]]
        rc  == [i \in 1..n |-> [r \in Reefs |-> [y \in Years |->
                   rubble_complementary(rd.rubble[sims[i]][r][y])]]]
        m   == [total_cover |-> tc, shelter_volume |-> sv, coraljuv_relative |-> jr,
                COTSrel_complementary |-> cc, rubble_complementary |-> rc]
    IN  [ set |-> TRUE, nsims |-> n,
          total_cover |-> tc, shelter_volume |-> sv, coraljuv_relative |-> jr,
          COTSrel_complementary |-> cc, rubble_complementary |-> rc,
          RCI |-> [i \in 1..n |-> [r \in Reefs |-> [y \in Years |->
                      reefcondition(MetricVec(m, i, r, y), p.rci_crit)]]],
          RTI |-> <<>>, RFI |-> <<>> ]

\* the arrays after random.choices(scen_ids, k=nsims) and the fancy indexing
\* of lines 154-159, and the metrics and categories of lines 188-235
Indicators(rd, sims, n, p) ==
    LET tc  == [i \in 1..n |-> [r \in Reefs |-> [y \in Years |->
                   total_cover(rd.total_taxa_cover, sims[i], r, y)]]]
        sv  == [i \in 1..n |-> [r \in Reefs |-> [y \in Years |->
                   shelterVolume(rd.relative_shelter_volume[sims[i]][r][y])]]]
        jr  == [i \in 1..n |-> [r \in Reefs |-> [y \in Years |->
                   coraljuv_relative(rd.nb_coral_juv[sims[i]][r][y], p.maxcoraljuv)]]]
        cc  == [i \in 1..n |-> [r \in Reefs |-> [y \in Years |->
                   COTSrel_complementary(rd.cots[sims[i]][r][y])]]]
        rc  == [i \in 1..n |-> [r \in Reefs |-> [y \in Years |->
                   rubble_complementary(rd.rubble[sims[i]][r][y])]]]
        m   == [total_cover |-> tc, shelter_volume |-> sv, coraljuv_relative |-> jr,
                COTSrel_complementary |-> cc, rubble_complementary |-> rc]
    IN  [ set |-> TRUE, nsims |-> n,
          total_cover |-> tc, shelter_volume |-> sv, coraljuv_relative |-> jr,
          COTSrel_complementary |-> cc, rubble_complementary |-> rc,
          RCI |-> [i \in 1..n |-> [r \in Reefs |-> [y \in Years |->
                      reefcondition(MetricVec(m, i, r, y), p.rci_crit)]]],
          RTI |-> <<>>, RFI |-> <<>> ]

\* ecol_uncert == 1: sample the scenarios, derive the metrics, classify
reef_condition_rme ==
    /\ ipc = "rme"
    /\ uncertainty_dict.ecol_uncert = 1
    /\ \E sims \in [1..nsims -> Range(scen_ids)] :
         /\ curr_eco_sim' = sims
         /\ ecol_indicators' = Indicators(results_data, sims, nsims, params)
    /\ ipc' = "rti"
    /\ UNCHANGED <<results_data, G, scen_ids, nsims, uncertainty_dict, params, cvars, avars>>

\* ecol_uncert == 0: the mean over axis 0 leaves a 3-d cover array, and the
\* 4-name unpacking of its shape raises ValueError
reef_condition_rme_mean ==
    /\ ipc = "rme"
    /\ uncertainty_dict.ecol_uncert = 0
    /\ ipc' = "error"
    /\ UNCHANGED <<results_data, G, scen_ids, nsims, uncertainty_dict, params,
                   curr_eco_sim, ecol_indicators, cvars, avars>>

(***************************************************************************)
(* rti_rme                                                                 *)
(***************************************************************************)
\* line 240 is a complete statement; lines 241-242 are expression
\* statements whose values are dropped
RtiLinear(rti_intercept, mv) == rti_intercept * 1000 + 291 * mv[1]

\* rti_rme with the lower masked assignment (line 245) left out
RtiClip_NoLower(x) == ClipHi(x, 900000)

\* lines 244-245
RtiClip(x) == ClipLo(ClipHi(x, 900000), 100000)

rti_value(rti_intercept, mv) == RtiClip(RtiLinear(rti_intercept, mv))

rti_rme ==
    /\ ipc = "rti"
    /\ ecol_indicators' =
         [ecol_indicators EXCEPT !.RTI =
            [i \in 1..nsims |-> [r \in Reefs |-> [y \in Years |->
               rti_value(params.rti_intercept, MetricVec(ecol_indicators, i, r, y))]]]]
    /\ ipc' = "rfi"
    /\ UNCHANGED <<results_data, G, scen_ids, nsims, uncertainty_dict, params, curr_eco_sim,
                   cvars, avars>>

(***************************************************************************)
(* rfi_rme.  An RFI value is exact in two parts: micro millionths plus     *)
(* frac ten-thousandths of a millionth, 0 <= frac < 10000.                 *)
(***************************************************************************)
\* intercept1 + slope1*total_cover*100, in units of 10^-7 (tc in thousandths,
\* intercept1 in millionths)
structural_complexity(tc, intercept1) == (10 * intercept1) + (slope1 * tc)

\* rfi_rme with the result cut off at 0.9
rfi_value_Clipped(tc, intercept1, intercept2) ==
    LET sc == structural_complexity(tc, intercept1)
        a  == sc \div 10000
        b  == sc % 10000
        hi == (slope2 * a) + ((slope2 * b) \div 10000) + (1000 * intercept2)
    IN  IF hi >= 900000 THEN [micro |-> 900000, frac |-> 0]
        ELSE [micro |-> hi, frac |-> (slope2 * b) % 10000]

\* line 250: 0.01*(intercept2 + slope2*(intercept1 + slope1*total_cover*100))
rfi_value(tc, intercept1, intercept2) ==
    LET sc == structural_complexity(tc, intercept1)
        a  == sc \div 10000
        b  == sc % 10000
    IN  [ micro |-> (slope2 * a) + ((slope2 * b) \div 10000) + (1000 * intercept2),
          frac  |-> (slope2 * b) % 10000 ]

rfi_rme ==
    /\ ipc = "rfi"
    /\ ecol_indicators' =
         [ecol_indicators EXCEPT !.RFI =
            [i \in 1..nsims |-> [r \in Reefs |-> [y \in Years |->
               rfi_value(ecol_indicators.total_cover[i][r][y],
                         params.intercept1, params.intercept2)]]]]
    /\ ipc' = "done"
    /\ UNCHANGED <<results_data, G, scen_ids, nsims, uncertainty_dict, params, curr_eco_sim,
                   cvars, avars>>

(***************************************************************************)
(* Specification of the indicator engine                                   *)
(***************************************************************************)
AggIdle ==
    /\ apc = "idle"
    /\ metrics = <<>>
    /\ data_store = <<>>
    /\ iv_queue = <<>>
    /\ iv_idx = 0
    /\ met_queue = <<>>
    /\ metrics_data_iv = <<>>
    /\ metrics_data_cf = <<>>
    /\ files = <<>>
    /\ id_key_df_store = <<>>

CostIdle ==
    /\ cpc = "idle"
    /\ ID_key = <<>>
    /\ n_draws = 0
    /\ design_shape = <<0, 0>>
    /\ n_factors = 0
    /\ evaluator = 0
    /\ scen_queue = <<>>
    /\ scen_id = 0
    /\ n_reps = 0
    /\ int_years = <<>>
    /\ N = 0
    /\ cost_df = <<>>
    /\ int_yr_idx = 0
    /\ rep = 0
    /\ factors_df_dep = <<>>
    /\ factors_df_prod = <<>>
    /\ csv = <<>>

InitInd ==
    /\ ipc = "params"
    /\ \E prof \in [Scens -> ProfileSet], juv \in [Years -> JuvVals] :
         results_data = MakeResults(prof, juv)
    /\ scen_ids \in ScenIdLists
    /\ nsims \in 1..MaxSims
    /\ uncertainty_dict \in UncertaintyDicts
    /\ G = ExpertPool(n_expert_draws)
    /\ params = NoParams
    /\ curr_eco_sim = <<>>
    /\ ecol_indicators = NoIndicators

\* runs with sampled expert thresholds, over pools of several sizes
GroupRunProfile == [cover |-> 5, rsv |-> 40, cots |-> 100, rubble |-> 50]
GroupCounts == {4, 12}               \* numbers of taxon groups other than ngroups

ExpertRunProfile == [cover |-> 10, rsv |-> 60, cots |-> 50, rubble |-> 30]

InitExpert ==
    /\ ipc = "params"
    /\ results_data = MakeResults([s \in Scens |-> ExpertRunProfile], [y \in Years |-> 1])
    /\ scen_ids = <<1>>
    /\ nsims = 1
    /\ uncertainty_dict \in ExpertDicts
    /\ \E P \in 5..MaxPool : G = ExpertPool(P)
    /\ params = NoParams
    /\ curr_eco_sim = <<>>
    /\ ecol_indicators = NoIndicators

\* runs over result sets whose cover array has other numbers of taxon groups
InitGroups ==
    /\ ipc = "params"
    /\ \E groups \in GroupCounts :
         results_data = MakeResultsOf([s \in Scens |-> GroupRunProfile], [y \in Years |-> 1], groups)
    /\ scen_ids = <<1>>
    /\ nsims = 1
    /\ uncertainty_dict \in {ud \in UncertaintyDicts : ud.ecol_uncert = 1}
    /\ G = ExpertPool(n_expert_draws)
    /\ params = NoParams
    /\ curr_eco_sim = <<>>
    /\ ecol_indicators = NoIndicators

Init == (InitInd \/ InitExpert \/ InitGroups) /\ CostIdle /\ AggIdle

Next ==
    \/ indicator_params
    \/ indicator_params_fails
    \/ reef_condition_rme
    \/ reef_condition_rme_mean
    \/ rti_rme
    \/ rfi_rme

Spec == Init /\ [][Next]_vars

(***************************************************************************)
(* The cost engine: cost_calculations.py                                   *)
(***************************************************************************)
MaxDraws == 1                     \* n_draws ranges over 1..MaxDraws
NFactorVals == {1, 2}             \* factor counts of a cost model
CoralVals == {1, 2}               \* corals deployed in a year
Shapes == {<<1, 1>>, <<2, 1>>, <<3, 1>>, <<1, 2>>, <<2, 2>>}
                                  \* <<intervention years, replicates>> of a scenario
PairShapes == {<<1, 1>>, <<2, 1>>, <<1, 2>>}
                                  \* the same, in tables that hold two scenarios
Evaluators == {1, 2}              \* response tables of the cost-model evaluators

cont_p == 8                       \* 0.8, in tenths
n_components == 11
port_id == 1
number_of_species == 6
FreshFactor == 0                  \* a factor value as sampled, before any injection

\* get_N for a Sobol design without the second-order block
get_N_FirstOrderOnly(nd, nf) == nd * (nf + 2)

get_N(nd, nf) == nd * ((2 * nf) + 2)

\* line 113: n_factors as factors_dataframe_update returns it
factors_dataframe_update_n_factors(shape) == IF shape[1] <= shape[2] THEN shape[1] ELSE shape[2]

RECURSIVE SortedSeq(_)
\* np.unique: the sorted distinct values
SortedSeq(S) ==
    IF S = {} THEN <<>>
    ELSE LET lo == CHOOSE x \in S : \A y \in S : x <= y
         IN  <<lo>> \o SortedSeq(S \ {lo})

(***************************************************************************)
(* Inputs: intervention key tables, as create_economics_metric_files       *)
(* builds them: one row per (scenario, intervention year, replicate), the  *)
(* scenarios one after the other, a scenario's rows ordered by year or by  *)
(* replicate.                                                              *)
(***************************************************************************)
Orders(sh) == IF sh[1] > 1 /\ sh[2] > 1 THEN {"year", "rep"} ELSE {"year"}

PlanRows(id, sh, order, corals) ==
    [k \in 1..(sh[1] * sh[2]) |->
        LET yi == IF order = "year" THEN ((k - 1) \div sh[2]) + 1 ELSE ((k - 1) % sh[1]) + 1
            r  == IF order = "year" THEN ((k - 1) % sh[2]) + 1 ELSE ((k - 1) \div sh[1]) + 1
        IN  [ ID |-> id, intervention_years |-> yi, rep |-> r,
              number_of_1YO_corals |-> corals[<<yi, r>>],
              port_id |-> port_id, distance_to_port_NM |-> 10 * id,
              number_of_species |-> number_of_species ]]

Plans(id, shapes) ==
    UNION { { PlanRows(id, sh, o, c) :
                o \in Orders(sh), c \in [(1..sh[1]) \X (1..sh[2]) -> CoralVals] } :
            sh \in shapes }

IDTables ==
    Plans(1, Shapes) \cup { a \o b : a \in Plans(1, PairShapes), b \in Plans(2, PairShapes) }

(***************************************************************************)
(* The cost-model evaluators (cost_model_queries, not part of the          *)
(* repository): given a factor design, a "Cost" and a "setupCost" per row. *)
(* A response table gives each row a unit rate per column; the cost is the *)
(* rate times the number of devices.                                       *)
(***************************************************************************)
UnitRate(e, col, d) == 1 + ((e + col + d) % 3)

sample_deployment_cost(df, e, nn) ==
    [df EXCEPT !.Cost = [d \in 1..nn |-> UnitRate(e, 1, d) * df.num_devices],
               !.setupCost = [d \in 1..nn |-> UnitRate(e, 2, d) * df.num_devices]]

sample_production_cost(df, e, nn) ==
    [df EXCEPT !.Cost = [d \in 1..nn |-> UnitRate(e, 3, d) * df.num_devices],
               !.setupCost = [d \in 1..nn |-> UnitRate(e, 4, d) * df.num_devices]]

(***************************************************************************)
(* cost_types                                                              *)
(***************************************************************************)
\* np.array(cost) is N x 2 (a row per draw: Cost, setupCost); element k of it
\* in memory (row-major) order
Flat(cost, k) == cost[((k - 1) \div 2) + 1][((k - 1) % 2) + 1]

\* np.reshape(np.array(cost), (2, N)): row i, column j
Reshape2xN(cost, nn, i, j) == Flat(cost, (i - 1) * nn + j)

\* cost_types with the OPEX contingency taken from the CAPEX row
cost_types_OpexContingencyOfCapex(cost, contingency, nn) ==
    [c \in 1..n_components |-> [j \in 1..nn |->
        CASE c = 1 -> 10 * Reshape2xN(cost, nn, 1, j)
          [] c = 2 -> Reshape2xN(cost, nn, 1, j) * contingency
          [] c = 3 -> 10 * Reshape2xN(cost, nn, 2, j)
          [] c = 5 -> Reshape2xN(cost, nn, 1, j) * contingency
          [] OTHER -> 0]]

\* the 11 x N block of cost codes, in tenths
cost_types(cost, contingency, nn) ==
    [c \in 1..n_components |-> [j \in 1..nn |->
        CASE c = 1 -> 10 * Reshape2xN(cost, nn, 1, j)
          [] c = 2 -> Reshape2xN(cost, nn, 1, j) * contingency
          [] c = 3 -> 10 * Reshape2xN(cost, nn, 2, j)
          [] c = 5 -> Reshape2xN(cost, nn, 2, j) * contingency
          [] OTHER -> 0]]

\* factors_df_dep[["Cost","setupCost"]] + factors_df_prod[["Cost","setupCost"]]
CombinedCost(dep, prod, nn) ==
    [d \in 1..nn |-> <<dep.Cost[d] + prod.Cost[d], dep.setupCost[d] + prod.setupCost[d]>>]

(***************************************************************************)
(* initialise_cost_df, update_factors, update_setupcost_factors            *)
(***************************************************************************)
\* initialise_cost_df leaving out the last component row
initialise_cost_df_TenRows(years, ncols) ==
    [y \in years |-> [c \in 1..(n_components - 1) |-> [d \in 1..ncols |-> 0]]]

\* lines 73-74: the "year" and "component" labels of the rows of the ledger,
\* np.repeat(years, 11) and np.tile(range(1, 12), n_years)
cost_df_index(years) ==
    [k \in 1..(Len(years) * n_components) |->
        [year |-> years[((k - 1) \div n_components) + 1],
         component |-> ((k - 1) % n_components) + 1]]

initialise_cost_df(years, ncols) ==
    [y \in years |-> [c \in 1..n_components |-> [d \in 1..ncols |-> 0]]]

\* ID_key[...].loc[(ID_key.intervention_years == yr) & (ID_key.rep == r)]
SelectRows(key, yr, r) ==
    SelectSeq(key, LAMBDA row : row.intervention_years = yr /\ row.rep = r)

update_factors_dep(df, sel) ==
    [df EXCEPT !.num_devices = sel[1].number_of_1YO_corals,
               !.port = sel[1].port_id,
               !.distance_from_port = sel[1].distance_to_port_NM]

update_factors_prod(df, sel) ==
    [df EXCEPT !.num_devices = sel[1].number_of_1YO_corals,
               !.species_no = sel[1].number_of_species]

update_setupcost_factors(df, sel) ==
    [df EXCEPT !.num_devices = df.num_devices - sel[1].number_of_1YO_corals]

\* lines 213-214 left out: the cost of the second sample is kept
restore_cost_Skipped(df, save_cost) == df

\* lines 213-214: df["Cost"] = save_cost
restore_cost(df, save_cost) == [df EXCEPT !.Cost = save_cost]

\* a factor design as factors_dataframe_update samples it
FreshDep == [num_devices |-> FreshFactor, port |-> FreshFactor,
             distance_from_port |-> FreshFactor, Cost |-> <<>>, setupCost |-> <<>>]
FreshProd == [num_devices |-> FreshFactor, species_no |-> FreshFactor,
              Cost |-> <<>>, setupCost |-> <<>>]

(***************************************************************************)
(* calculate_costs                                                         *)
(***************************************************************************)
ScenRows(key, id) == SelectSeq(key, LAMBDA row : row.ID = id)

\* lines 176-184: the next scenario; sample the designs, set up the ledger
ScenarioStart ==
    /\ cpc = "scen"
    /\ scen_queue # <<>>
    /\ LET id   == Head(scen_queue)
           reps == Max({ID_key[k].rep : k \in DOMAIN ID_key})
           rows == ScenRows(ID_key, id)
           yrs  == [k \in DOMAIN rows |-> rows[k].intervention_years]
           nf   == factors_dataframe_update_n_factors(design_shape)
           nn   == get_N(n_draws, nf)
       IN  /\ scen_id' = id
           /\ n_factors' = nf
           /\ n_reps' = reps
           /\ int_years' = yrs
           /\ N' = nn
           /\ cost_df' = initialise_cost_df(Range(yrs), nn * reps)
    /\ \E e \in Evaluators : evaluator' = e
    /\ factors_df_dep' = FreshDep
    /\ factors_df_prod' = FreshProd
    /\ int_yr_idx' = 1
    /\ rep' = 0
    /\ scen_queue' = Tail(scen_queue)
    /\ cpc' = "sample"
    /\ UNCHANGED <<ID_key, n_draws, design_shape, csv, ivars, avars>>

int_yr == int_years[int_yr_idx]

\* line 195 with >= for >
setup_step_due_FromFirstYear(yr, years) == yr >= years[1]

\* line 195: int_yr > int_years.iloc[0]
setup_step_due(yr, years) == yr > years[1]

\* lines 189-193: inject the constants of (int_yr, rep), sample the full cost
UpdateAndSample ==
    /\ cpc = "sample"
    /\ LET sel == SelectRows(ID_key, int_yr, rep + 1)
       IN  /\ sel # <<>>
           /\ factors_df_dep' =
                sample_deployment_cost(update_factors_dep(factors_df_dep, sel), evaluator, N)
           /\ factors_df_prod' =
                sample_production_cost(update_factors_prod(factors_df_prod, sel), evaluator, N)
    /\ cpc' = "setup"
    /\ UNCHANGED <<ID_key, n_draws, design_shape, n_factors, evaluator, scen_queue, scen_id, n_reps,
                   int_years, N, cost_df, int_yr_idx, rep, csv, ivars, avars>>

\* line 189 with no row for (int_yr, rep): .iloc[0] raises IndexError
UpdateFactorsFails ==
    /\ cpc = "sample"
    /\ SelectRows(ID_key, int_yr, rep + 1) = <<>>
    /\ cpc' = "error"
    /\ UNCHANGED <<ID_key, n_draws, design_shape, n_factors, evaluator, scen_queue, scen_id, n_reps,
                   int_years, N, cost_df, int_yr_idx, rep, factors_df_dep,
                   factors_df_prod, csv, ivars, avars>>

\* line 195 false: the first intervention year keeps the full sample
SkipSetupStep ==
    /\ cpc = "setup"
    /\ ~setup_step_due(int_yr, int_years)
    /\ cpc' = "write"
    /\ UNCHANGED <<ID_key, n_draws, design_shape, n_factors, evaluator, scen_queue, scen_id, n_reps,
                   int_years, N, cost_df, int_yr_idx, rep, factors_df_dep,
                   factors_df_prod, csv, ivars, avars>>

\* the rows line 201 hands to update_setupcost_factors; never empty, since the
\* previous entry of int_years went through line 189 with every replicate
PrevRows ==
    LET prev == IF int_yr_idx = 1 THEN Len(int_years) ELSE int_yr_idx - 1  \* .iloc[-1]
    IN  SelectRows(ID_key, int_years[prev], rep + 1)

\* lines 195-206: no more devices than the previous entry, setup cost is zero
SetupCostZero ==
    /\ cpc = "setup"
    /\ setup_step_due(int_yr, int_years)
    /\ LET dep  == update_setupcost_factors(factors_df_dep, PrevRows)
           prod == update_setupcost_factors(factors_df_prod, PrevRows)
       IN  /\ dep.num_devices <= 0
           /\ factors_df_dep' = [dep EXCEPT !.setupCost = [d \in 1..N |-> 0]]
           /\ factors_df_prod' = [prod EXCEPT !.setupCost = [d \in 1..N |-> 0]]
    /\ cpc' = "write"
    /\ UNCHANGED <<ID_key, n_draws, design_shape, n_factors, evaluator, scen_queue, scen_id, n_reps,
                   int_years, N, cost_df, int_yr_idx, rep, csv, ivars, avars>>

\* lines 195-214: more devices than the previous entry, sample again with the
\* increment and put the saved operational cost back
SetupCostResample ==
    /\ cpc = "setup"
    /\ setup_step_due(int_yr, int_years)
    /\ LET save_cost_prod == factors_df_prod.Cost
           save_cost_dep  == factors_df_dep.Cost
           dep  == update_setupcost_factors(factors_df_dep, PrevRows)
           prod == update_setupcost_factors(factors_df_prod, PrevRows)
       IN  /\ ~(dep.num_devices <= 0)
           /\ factors_df_dep' =
                restore_cost(sample_deployment_cost(dep, evaluator, N), save_cost_dep)
           /\ factors_df_prod' =
                restore_cost(sample_production_cost(prod, evaluator, N), save_cost_prod)
    /\ cpc' = "write"
    /\ UNCHANGED <<ID_key, n_draws, design_shape, n_factors, evaluator, scen_queue, scen_id, n_reps,
                   int_years, N, cost_df, int_yr_idx, rep, csv, ivars, avars>>

\* the draw columns of replicate rp (0-based): cost_df.columns[rp*N+2 : rp*N+N+2]
RepColumns(rp, nn) == (rp * nn + 1)..(rp * nn + nn)

\* line 217: the cost codes of (int_yr, rep) go into the ledger
WriteLedger ==
    /\ cpc = "write"
    /\ LET block == cost_types(CombinedCost(factors_df_dep, factors_df_prod, N), cont_p, N)
       IN  cost_df' =
             [cost_df EXCEPT ![int_yr] =
                [c \in 1..n_components |-> [col \in 1..(N * n_reps) |->
                    IF col \in RepColumns(rep, N) THEN block[c][col - rep * N]
                    ELSE cost_df[int_yr][c][col]]]]
    /\ cpc' = "drop"
    /\ UNCHANGED <<ID_key, n_draws, design_shape, n_factors, evaluator, scen_queue, scen_id, n_reps,
                   int_years, N, int_yr_idx, rep, factors_df_dep, factors_df_prod, csv,
                   ivars, avars>>

\* lines 220-221, then the next replicate or the next entry of int_years
DropCostColumns ==
    /\ cpc = "drop"
    /\ factors_df_dep' = [factors_df_dep EXCEPT !.Cost = <<>>, !.setupCost = <<>>]
    /\ factors_df_prod' = [factors_df_prod EXCEPT !.Cost = <<>>, !.setupCost = <<>>]
    /\ IF rep + 1 < n_reps
         THEN /\ rep' = rep + 1
              /\ UNCHANGED int_yr_idx
              /\ cpc' = "sample"
         ELSE IF int_yr_idx < Len(int_years)
                THEN /\ rep' = 0
                     /\ int_yr_idx' = int_yr_idx + 1
                     /\ cpc' = "sample"
                ELSE /\ UNCHANGED <<rep, int_yr_idx>>
                     /\ cpc' = "to_csv"
    /\ UNCHANGED <<ID_key, n_draws, design_shape, n_factors, evaluator, scen_queue, scen_id, n_reps,
                   int_years, N, cost_df, csv, ivars, avars>>

\* line 223: the ledger of the scenario is written out
WriteCsv ==
    /\ cpc = "to_csv"
    /\ csv' = [id \in DOMAIN csv \cup {scen_id} |->
                 IF id = scen_id THEN cost_df ELSE csv[id]]
    /\ cpc' = "scen"
    /\ UNCHANGED <<ID_key, n_draws, design_shape, n_factors, evaluator, scen_queue, scen_id, n_reps,
                   int_years, N, cost_df, int_yr_idx, rep, factors_df_dep,
                   factors_df_prod, ivars, avars>>

\* the loop over the scenarios is exhausted: calculate_costs returns
Return ==
    /\ cpc = "scen"
    /\ scen_queue = <<>>
    /\ cpc' = "done"
    /\ UNCHANGED <<ID_key, n_draws, design_shape, n_factors, evaluator, scen_queue, scen_id, n_reps,
                   int_years, N, cost_df, int_yr_idx, rep, factors_df_dep,
                   factors_df_prod, csv, ivars, avars>>

(***************************************************************************)
(* Specification of the cost engine                                        *)
(***************************************************************************)
IndIdle ==
    /\ ipc = "idle"
    /\ results_data = <<>>
    /\ G = <<>>
    /\ scen_ids = <<>>
    /\ nsims = 0
    /\ uncertainty_dict = <<>>
    /\ params = NoParams
    /\ curr_eco_sim = <<>>
    /\ ecol_indicators = NoIndicators

InitCost ==
    /\ IndIdle
    /\ AggIdle
    /\ cpc = "scen"
    /\ ID_key \in IDTables
    /\ n_draws \in 1..MaxDraws
    /\ design_shape \in NFactorVals \X NFactorVals
    /\ n_factors = 0
    /\ scen_queue = SortedSeq({ID_key[k].ID : k \in DOMAIN ID_key})
    /\ evaluator = 0
    /\ scen_id = 0
    /\ n_reps = 0
    /\ int_years = <<>>
    /\ N = 0
    /\ cost_df = <<>>
    /\ int_yr_idx = 0
    /\ rep = 0
    /\ factors_df_dep = FreshDep
    /\ factors_df_prod = FreshProd
    /\ csv = <<>>

NextCost ==
    \/ ScenarioStart
    \/ UpdateAndSample
    \/ UpdateFactorsFails
    \/ SkipSetupStep
    \/ SetupCostZero
    \/ SetupCostResample
    \/ WriteLedger
    \/ DropCostColumns
    \/ WriteCsv
    \/ Return

SpecCost == InitCost /\ [][NextCost]_vars

(***************************************************************************)
(* The aggregator: process_RME_data.py, create_economics_metric_files and  *)
(* the transforms it applies.  The base table has one row per reef and     *)
(* year; metric arrays are [simulation -> [row -> value]] as extract_metrics*)
(* returns them.  RCI and total_cover are in thousandths, RTI in           *)
(* millionths, RFI in thousandths, areas in whole units.                   *)
(***************************************************************************)
AggRows == {1, 2}                     \* two reefs, one year
AggYears == <<2025>>                  \* results_data["timesteps"]
total_area_nine_zones == <<1, 3>>     \* the area column of the base table, per row
SimNames == <<"sim_1", "sim_2", "sim_3", "sim_4">>
rci_threshold == 600                  \* 0.6
rfi_thresholds == <<740, 29910>>      \* [0.74, 29.91]

\* the scenario table: two interventions, two years each
scens_df ==
    << [intervention_id |-> 1, year |-> 2025, rep |-> 1, number_of_corals |-> 10],
       [intervention_id |-> 1, year |-> 2026, rep |-> 1, number_of_corals |-> 20],
       [intervention_id |-> 2, year |-> 2024, rep |-> 1, number_of_corals |-> 10],
       [intervention_id |-> 2, year |-> 2025, rep |-> 1, number_of_corals |-> 30] >>

\* the transform lists explored: the default one and others that together
\* call every transform
MetricLists ==
    { <<"rci", "area_weighted_rti", "raw_rci">>,
      <<"raw_rci", "rci">>,
      <<"coral_area_saved", "raw_rti">>,
      <<"raw_rti", "rfi">> }

\* the switches the aggregator is run with: the defaults, and all off
AggDicts ==
    { [ecol_uncert |-> 1, shelt_uncert |-> 0, expert_uncert |-> 1, rti_uncert |-> 1, rfi_uncert |-> 1],
      [ecol_uncert |-> 0, shelt_uncert |-> 0, expert_uncert |-> 0, rti_uncert |-> 0, rfi_uncert |-> 0] }

\* what extract_metrics can return for one simulation, over the two rows
SimProfiles ==
    { [ RCI |-> <<900, 300>>, RTI |-> <<800000, 400000>>, RFI |-> <<500, 12000>>,
        total_cover |-> <<600, 200>> ],
      [ RCI |-> <<700, 500>>, RTI |-> <<600000, 200000>>, RFI |-> <<40000, 740>>,
        total_cover |-> <<450, 100>> ] }

\* extract_metrics (calculate_metrics.py lines 329-336): one array per key,
\* of shape (nsims, nreefs*nyears)
ExtractedMetrics(n) ==
    { [ RCI |-> [i \in 1..n |-> ch[i].RCI], RTI |-> [i \in 1..n |-> ch[i].RTI],
        RFI |-> [i \in 1..n |-> ch[i].RFI], total_cover |-> [i \in 1..n |-> ch[i].total_cover] ] :
      ch \in [1..n -> SimProfiles] }

\* lines 82-99: the columns create_base_economics_dataframe leaves
TemplateColumns ==
    << "year_absolute", "year_relative", "Reef_ID", "reef_name_x", "UNIQUE_ID",
       "reef_gbrmpa_id", "reef_name_y", "total_area_nine_zones" >>

\* line 239
create_base_economics_dataframe ==
    [ columns |-> TemplateColumns,
      year_relative |-> [r \in AggRows |-> 0],
      sims |-> <<>> ]

\* np.transpose(a, (1, 0)) of an array [simulation -> [row -> value]]
Transpose(a) == [r \in AggRows |-> [i \in DOMAIN a |-> a[i][r]]]

\* a[a >= c] = v and a[a < c] = v, a[a > c] = v: masked assignment in place
AssignWhereGeq(a, c, v) ==
    [i \in DOMAIN a |-> [r \in AggRows |-> IF a[i][r] >= c THEN v ELSE a[i][r]]]
AssignWhereLess(a, c, v) ==
    [i \in DOMAIN a |-> [r \in AggRows |-> IF a[i][r] < c THEN v ELSE a[i][r]]]
AssignWhereGreater(a, c, v) ==
    [i \in DOMAIN a |-> [r \in AggRows |-> IF a[i][r] > c THEN v ELSE a[i][r]]]

SumAreas == SumTo(total_area_nine_zones, Len(total_area_nine_zones))

\* A call of a transform gives: whether it raised, the indicator set as the
\* call leaves it, and the array returned.

\* lines 103-114: RTI times the row's share of the area, in millionths
area_weighted_rti(metrics_dict) ==
    [ raised |-> FALSE, metrics_dict |-> metrics_dict,
      out |-> Transpose([i \in DOMAIN metrics_dict.RTI |-> [r \in AggRows |->
                 (metrics_dict.RTI[i][r] * total_area_nine_zones[r]) \div SumAreas]]) ]

\* lines 116-132: rci is the array object held by the dict, the two masked
\* assignments of lines 129-130 write into it; area in thousandths
rci(metrics_dict) ==
    LET rci1 == AssignWhereGeq(metrics_dict.RCI, rci_threshold, 1000)
        rci2 == AssignWhereLess(rci1, rci_threshold, 0)
    IN  [ raised |-> FALSE, metrics_dict |-> [metrics_dict EXCEPT !.RCI = rci2],
          out |-> Transpose([i \in DOMAIN rci2 |-> [r \in AggRows |->
                     rci2[i][r] * total_area_nine_zones[r]]]) ]

\* lines 134-146: total_cover * area / 100, in hundred-thousandths
coral_area_saved(metrics_dict) ==
    [ raised |-> FALSE, metrics_dict |-> metrics_dict,
      out |-> Transpose([i \in DOMAIN metrics_dict.total_cover |-> [r \in AggRows |->
                 metrics_dict.total_cover[i][r] * total_area_nine_zones[r]]]) ]

\* lines 148-166: Python indexes from 0, so rfi_thresholds[1] is the second
\* element and rfi_thresholds[2] the third; line 163 has written into the
\* array of the dict before line 164 looks up rfi_thresholds[2]
rfi(metrics_dict, thresholds) ==
    LET rfi1 == AssignWhereLess(metrics_dict.RFI, thresholds[2], thresholds[2])
    IN  IF Len(thresholds) < 3
        THEN [ raised |-> TRUE, metrics_dict |-> [metrics_dict EXCEPT !.RFI = rfi1],
               out |-> <<>> ]
        ELSE LET rfi2 == AssignWhereGreater(rfi1, thresholds[3], thresholds[2])
             IN  [ raised |-> FALSE, metrics_dict |-> [metrics_dict EXCEPT !.RFI = rfi2],
                   out |-> Transpose(rfi2) ]

\* lines 168-179
raw_rci(metrics_dict) ==
    [ raised |-> FALSE, metrics_dict |-> metrics_dict, out |-> Transpose(metrics_dict.RCI) ]

\* lines 181-193
raw_rti(metrics_dict) ==
    [ raised |-> FALSE, metrics_dict |-> metrics_dict, out |-> Transpose(metrics_dict.RTI) ]

\* met_func(metrics_data, data_store), with the default arguments
met_func(name, metrics_dict) ==
    CASE name = "rci" -> rci(metrics_dict)
      [] name = "area_weighted_rti" -> area_weighted_rti(metrics_dict)
      [] name = "coral_area_saved" -> coral_area_saved(metrics_dict)
      [] name = "rfi" -> rfi(metrics_dict, rfi_thresholds)
      [] name = "raw_rci" -> raw_rci(metrics_dict)
      [] name = "raw_rti" -> raw_rti(metrics_dict)

\* line 268
new_cols(n) == [i \in 1..n |-> SimNames[i]]

\* data_store[new_cols] = a: the columns are appended when the table has
\* none of them, and overwritten when it has
SetColumns(ds, names, a) ==
    [ ds EXCEPT
        !.columns = ds.columns \o SelectSeq(names, LAMBDA c : c \notin Range(ds.columns)),
        !.sims = [c \in (DOMAIN ds.sims) \cup Range(names) |->
                     IF c \in Range(names)
                     THEN [r \in AggRows |-> a[r][CHOOSE i \in DOMAIN names : names[i] = c]]
                     ELSE ds.sims[c]] ]

\* line 300 left out: the table keeps its sim columns
drop_NotDropped(ds, names) == ds

\* line 300: data_store.drop(new_cols, axis=1)
drop(ds, names) ==
    [ ds EXCEPT
        !.columns = SelectSeq(ds.columns, LAMBDA c : c \notin Range(names)),
        !.sims = [c \in (DOMAIN ds.sims) \ Range(names) |-> ds.sims[c]] ]

ScensOf(iv) == {row \in Range(scens_df) : row.intervention_id = iv}

\* line 242: np.unique(scens_df["intervention id"])
intervention_ids == SortedSeq({row.intervention_id : row \in Range(scens_df)})

\* line 260: year_absolute - min(scens_df_iv["year"])
year_relative(iv) ==
    [r \in AggRows |-> AggYears[1] - Min({row.year : row \in ScensOf(iv)})]

\* lines 292-297: the name of the file written for a transform
filename(iv, kind, name) == <<iv, kind, name>>

\* to_csv: the table as it is, under the name
to_csv(fs, name, ds) ==
    [k \in (DOMAIN fs) \cup {name} |-> IF k = name THEN ds ELSE fs[k]]

\* lines 272-283, 303-308: the key rows of the intervention
id_key_df(iv) ==
    { [ ID |-> row.intervention_id, intervention_years |-> row.year, rep |-> row.rep,
        number_of_1YO_corals |-> row.number_of_corals,
        results_filename |-> <<"intervention", iv>>,
        port_id |-> port_id, number_of_species |-> number_of_species,
        start_year |-> AggYears[1], end_year |-> AggYears[Len(AggYears)] ] :
      row \in ScensOf(iv) }

ZeroColumns(n) == [r \in AggRows |-> [i \in 1..n |-> 0]]

\* lines 252-290: the head of the loop body for the next intervention; the
\* two extract_metrics calls return, and the run is continued past the
\* breakpoint() of line 290
begin_intervention ==
    /\ apc = "loop"
    /\ iv_queue # <<>>
    /\ uncertainty_dict.ecol_uncert = 1
    /\ iv_idx' = Head(iv_queue)
    /\ iv_queue' = Tail(iv_queue)
    /\ data_store' = SetColumns([data_store EXCEPT !.year_relative = year_relative(Head(iv_queue))],
                                new_cols(nsims), ZeroColumns(nsims))
    /\ metrics_data_iv' \in ExtractedMetrics(nsims)
    /\ metrics_data_cf' \in ExtractedMetrics(nsims)
    /\ met_queue' = metrics
    /\ apc' = "iv"
    /\ UNCHANGED <<metrics, files, id_key_df_store, ivars, cvars>>

\* lines 252-288 with ecol_uncert == 0: extract_metrics raises out of
\* reef_condition_rme
extract_metrics_fails ==
    /\ apc = "loop"
    /\ iv_queue # <<>>
    /\ uncertainty_dict.ecol_uncert = 0
    /\ iv_idx' = Head(iv_queue)
    /\ iv_queue' = Tail(iv_queue)
    /\ data_store' = SetColumns([data_store EXCEPT !.year_relative = year_relative(Head(iv_queue))],
                                new_cols(nsims), ZeroColumns(nsims))
    /\ apc' = "error"
    /\ UNCHANGED <<metrics, met_queue, metrics_data_iv, metrics_data_cf, files,
                   id_key_df_store, ivars, cvars>>

\* lines 292-294: the transform on the intervention metrics, and its file
write_intervention_file ==
    /\ apc = "iv"
    /\ met_queue # <<>>
    /\ \E call \in {met_func(Head(met_queue), metrics_data_iv)} :
         /\ ~call.raised
         /\ metrics_data_iv' = call.metrics_dict
         /\ data_store' = SetColumns(data_store, new_cols(nsims), call.out)
         /\ files' = to_csv(files, filename(iv_idx, "intervention", Head(met_queue)),
                            data_store')
    /\ apc' = "cf"
    /\ UNCHANGED <<metrics, iv_queue, iv_idx, met_queue, metrics_data_cf, id_key_df_store,
                   ivars, cvars>>

\* line 292 when the transform raises: the run ends there, with what the
\* transform had already written into the metrics
met_func_raises ==
    /\ apc = "iv"
    /\ met_queue # <<>>
    /\ \E call \in {met_func(Head(met_queue), metrics_data_iv)} :
         /\ call.raised
         /\ metrics_data_iv' = call.metrics_dict
    /\ apc' = "error"
    /\ UNCHANGED <<metrics, data_store, iv_queue, iv_idx, met_queue, metrics_data_cf, files,
                   id_key_df_store, ivars, cvars>>

\* lines 295-297: the transform on the counterfactual metrics, and its file
write_counterfactual_file ==
    /\ apc = "cf"
    /\ \E call \in {met_func(Head(met_queue), metrics_data_cf)} :
         /\ ~call.raised
         /\ metrics_data_cf' = call.metrics_dict
         /\ data_store' = SetColumns(data_store, new_cols(nsims), call.out)
         /\ files' = to_csv(files, filename(iv_idx, "counterfactual", Head(met_queue)),
                            data_store')
    /\ met_queue' = Tail(met_queue)
    /\ apc' = "iv"
    /\ UNCHANGED <<metrics, iv_queue, iv_idx, metrics_data_iv, id_key_df_store, ivars, cvars>>

\* lines 299-309: the end of the loop body
end_intervention ==
    /\ apc = "iv"
    /\ met_queue = <<>>
    /\ data_store' = drop(data_store, new_cols(nsims))
    /\ id_key_df_store' = Append(id_key_df_store, id_key_df(iv_idx))
    /\ apc' = "loop"
    /\ UNCHANGED <<metrics, iv_queue, iv_idx, met_queue, metrics_data_iv, metrics_data_cf,
                   files, ivars, cvars>>

\* lines 311-315: the key file is saved and its name returned
return_id_filename ==
    /\ apc = "loop"
    /\ iv_queue = <<>>
    /\ apc' = "done"
    /\ UNCHANGED <<metrics, data_store, iv_queue, iv_idx, met_queue, metrics_data_iv,
                   metrics_data_cf, files, id_key_df_store, ivars, cvars>>

\* create_economics_metric_files is called: lines 228-249
InitAgg ==
    /\ ipc = "idle"
    /\ results_data = <<>>
    /\ G = <<>>
    /\ scen_ids = <<>>
    /\ nsims \in 1..MaxSims
    /\ uncertainty_dict \in AggDicts
    /\ params = NoParams
    /\ curr_eco_sim = <<>>
    /\ ecol_indicators = NoIndicators
    /\ CostIdle
    /\ apc = "loop"
    /\ metrics \in MetricLists
    /\ data_store = create_base_economics_dataframe
    /\ iv_queue = intervention_ids
    /\ iv_idx = 0
    /\ met_queue = <<>>
    /\ metrics_data_iv = <<>>
    /\ metrics_data_cf = <<>>
    /\ files = <<>>
    /\ id_key_df_store = <<>>

NextAgg ==
    \/ begin_intervention
    \/ extract_metrics_fails
    \/ write_intervention_file
    \/ met_func_raises
    \/ write_counterfactual_file
    \/ end_intervention
    \/ return_id_filename

SpecAgg == InitAgg /\ [][NextAgg]_vars

(***************************************************************************)
(* Claims about the indicator engine                                       *)
(***************************************************************************)
Returned == ecol_indicators.set

\* reef_condition_rme has returned, and the juvenile baseline it was given is
\* positive, so that every metric is finite
ReturnedFinite == Returned /\ params.maxcoraljuv > 0

CellMetrics(c) == MetricVec(ecol_indicators, c[1], c[2], c[3])
CellRCI(c) == ecol_indicators.RCI[c[1]][c[2]][c[3]]
CellRTI(c) == ecol_indicators.RTI[c[1]][c[2]][c[3]]

\* x >= y between two metric values, neither of them nan
MetricGeq(x, y) == x # NaN /\ y # NaN /\ x >= y

\* C1: every RCI value reef_condition_rme returns is one of the five levels
\* 0.1, 0.3, 0.5, 0.7, 0.9 (stated for a positive juvenile baseline, as are
\* C2 to C5: a zero baseline is not what refutes them).
C1_RciIsOneOfFiveLevels ==
    ReturnedFinite => \A c \in Cells(nsims) : CellRCI(c) \in {100, 300, 500, 700, 900}

\* C2: the credit sum of a cell is mapped to the highest category among 0.3,
\* 0.5, 0.7, 0.9 whose cumulative boundary it meets; a cell credited on all
\* four tiers ends with 0.9.
C2_HighestBoundaryMet ==
    ReturnedFinite =>
      \A c \in Cells(nsims) :
        LET s == CreditSum(CellMetrics(c), params.rci_crit)
        IN  \A k \in 1..ncrits :
              (s >= crit_thresh[k] /\ (k = ncrits \/ s < crit_thresh[k + 1]))
                => CellRCI(c) = <<300, 500, 700, 900>>[k]

\* C3: for a fixed threshold matrix, a cell that is at least as high as
\* another on all five metrics gets a category at least as high.
C3_Monotone ==
    ReturnedFinite =>
      \A a \in Cells(nsims), b \in Cells(nsims) :
        (\A m \in 1..n_metrics : MetricGeq(CellMetrics(b)[m], CellMetrics(a)[m]))
          => CellRCI(b) >= CellRCI(a)

\* thresholds that do not increase from the 0.9 tier down to the 0.3 tier
NonIncreasingCrit(rci_crit) ==
    \A t \in 1..(ncrits - 1), m \in 1..n_metrics : rci_crit[t][m] >= rci_crit[t + 1][m]

AtTopTier(c) == \A m \in 1..n_metrics : CellMetrics(c)[m] = params.rci_crit[1][m]

\* C4: with thresholds that do not increase from the 0.9 tier to the 0.3 tier,
\* a cell whose five metrics equal the 0.9-tier thresholds is classified 0.9.
C4_TopTierBoundary ==
    ReturnedFinite =>
      \A c \in Cells(nsims) :
        (NonIncreasingCrit(params.rci_crit) /\ AtTopTier(c)) => CellRCI(c) = 900

\* C5: each of the five base metrics of every cell lies in [0, 1], in every
\* year, also outside the window of the juvenile baseline.
C5_MetricsInUnitInterval ==
    ReturnedFinite =>
      \A c \in Cells(nsims), m \in 1..n_metrics :
        0 <= CellMetrics(c)[m] /\ CellMetrics(c)[m] <= 1000

\* the regression of all five metrics, in millionths
RtiFiveMetrics(rti_intercept, mv) ==
    rti_intercept * 1000 + 291 * mv[1] + 628 * mv[2] + 1335 * mv[3]
      + 212 * mv[4] + 250 * mv[5]

AllFinite(mv) == \A m \in 1..n_metrics : IsFinite(mv[m])

\* C6: RTI = clip(intercept + 0.291*total_cover + 0.628*shelter_volume
\* + 1.335*coraljuv_relative + 0.212*COTSrel_complementary
\* + 0.250*rubble_complementary, 0.1, 0.9) in every cell.
C6_RtiUsesFiveMetrics ==
    ipc = "done" =>
      \A c \in Cells(nsims) :
        AllFinite(CellMetrics(c)) =>
          CellRTI(c) = ClipLo(ClipHi(RtiFiveMetrics(params.rti_intercept, CellMetrics(c)),
                                     900000), 100000)

\* C7: every RTI value rti_rme returns lies in [0.1, 0.9].
C7_RtiBounded ==
    ipc = "done" =>
      \A c \in Cells(nsims) : 100000 <= CellRTI(c) /\ CellRTI(c) <= 900000

\* rti_rme has returned and clipped a regression value below 0.1 up to 0.1
C7_Witness ==
    /\ ipc = "done"
    /\ \E c \in Cells(nsims) :
         /\ RtiLinear(params.rti_intercept, CellMetrics(c)) < 100000
         /\ CellRTI(c) = 100000

(***************************************************************************)
(* Claims about the cost engine                                            *)
(***************************************************************************)
\* the row of the key table for (scenario, year, replicate)
KeyRow(id, yr, r) ==
    CHOOSE row \in Range(ID_key) :
        row.ID = id /\ row.intervention_years = yr /\ row.rep = r

YearsOf(id) == {row.intervention_years : row \in {x \in Range(ID_key) : x.ID = id}}

\* C8: when year t's coral count of a scenario and replicate is no more than
\* the preceding intervention year's, component 3 of year t is 0 in every draw
\* column of that replicate of the ledger written out.
C8_SetupCostZeroLaw ==
    \A id \in DOMAIN csv :
      \A row \in {x \in Range(ID_key) : x.ID = id} :
        LET before == {y \in YearsOf(id) : y < row.intervention_years}
        IN  (/\ before # {}
             /\ row.number_of_1YO_corals
                  <= KeyRow(id, Max(before), row.rep).number_of_1YO_corals)
            => \A col \in RepColumns(row.rep - 1, get_N(n_draws, n_factors)) :
                 csv[id][row.intervention_years][3][col] = 0

\* C9: component row 1 of draw j holds the combined Cost of draw j and
\* component row 3 of draw j the combined setupCost of draw j, for every j.
C9_PerDrawDecomposition ==
    cpc = "drop" =>
      \A j \in 1..N :
        LET combined == CombinedCost(factors_df_dep, factors_df_prod, N)
        IN  /\ cost_df[int_yr][1][rep * N + j] = 10 * combined[j][1]
            /\ cost_df[int_yr][3][rep * N + j] = 10 * combined[j][2]

\* the decomposition law on one ledger
DecompositionLaw(ledger) ==
    \A y \in DOMAIN ledger :
      \A col \in DOMAIN ledger[y][1] :
        /\ 10 * ledger[y][2][col] = cont_p * ledger[y][1][col]
        /\ 10 * ledger[y][5][col] = cont_p * ledger[y][3][col]
        /\ \A c \in {4, 6, 7, 8, 9, 10, 11} : ledger[y][c][col] = 0

\* C10: in the ledger, at every point and when written out, row 2 is row 1
\* times the contingency rate, row 5 is row 3 times the contingency rate and
\* rows 4, 6, 7, 8, 9, 10, 11 are 0.
C10_CostDecompositionLaw ==
    /\ DecompositionLaw(cost_df)
    /\ \A id \in DOMAIN csv : DecompositionLaw(csv[id])

\* a ledger was written out that holds a block cost_types produced, with a
\* non-zero row 1 and a non-zero row 3
C10_Witness ==
    \E id \in DOMAIN csv :
      \E y \in DOMAIN csv[id] :
        \E col \in DOMAIN csv[id][y][1] :
          /\ csv[id][y][1][col] > 0
          /\ csv[id][y][3][col] > 0
          /\ csv[id][y][5][col] > 0

\* the N of the scenario being processed has been computed
NComputed == cpc \in {"sample", "setup", "write", "drop", "to_csv"}

\* C11: get_N(n_draws, n_factors) is n_draws * (2*n_factors + 2) for
\* non-negative integers, get_N(4, 5) is 48, and the N calculate_costs uses
\* for a scenario is get_N of the smaller of the two designs' factor counts.
C11_SamplingCountLaw ==
    /\ get_N(4, 5) = 48
    /\ \A nd \in 0..(MaxDraws + 3), nf \in 0..5 : get_N(nd, nf) = (2 * nd * nf) + (2 * nd)
    /\ NComputed =>
         LET smaller == CHOOSE x \in {design_shape[1], design_shape[2]} :
                           x <= design_shape[1] /\ x <= design_shape[2]
         IN  /\ n_factors = smaller
             /\ N = (2 * n_draws * smaller) + (2 * n_draws)

\* a scenario is being processed whose two designs differ in factor count
C11_Witness ==
    /\ NComputed
    /\ design_shape[1] > design_shape[2]
    /\ N > 0

\* the rows and columns of the ledger: 11 rows per distinct intervention
\* year, labelled with the components 1..11 once each, and N * n_reps draw
\* columns that the replicates' blocks partition
LedgerShape ==
    \A index \in {cost_df_index(SortedSeq(Range(int_years)))} :
        /\ Len(index) = 11 * Cardinality(Range(int_years))
        /\ \A y \in Range(int_years), c \in 1..11 :
              Cardinality({k \in DOMAIN index :
                             index[k].year = y /\ index[k].component = c}) = 1
        /\ DOMAIN cost_df = Range(int_years)
        /\ \A y \in DOMAIN cost_df :
              /\ DOMAIN cost_df[y] = 1..11
              /\ \A c \in 1..11 : DOMAIN cost_df[y][c] = 1..(N * n_reps)
        /\ \A col \in 1..(N * n_reps) :
              Cardinality({r \in 0..(n_reps - 1) : col \in RepColumns(r, N)}) = 1

\* line 217 writes the block of (int_yr, rep) and no other cell
LedgerWriteFrame ==
    \A y \in DOMAIN cost_df, c \in 1..11, col \in 1..(N * n_reps) :
      (y # int_yr \/ col \notin RepColumns(rep, N))
        => cost_df'[y][c][col] = cost_df[y][c][col]

\* C12: at every point of calculate_costs the ledger of the scenario has 11
\* rows per distinct intervention year, components 1..11 once each, and
\* N * n_reps draw columns; the write of replicate r changes only the N
\* columns of r's own block, which no other replicate shares.
C12_LedgerShapeInvariant ==
    [][ /\ NComputed' => LedgerShape'
        /\ cpc = "write" => LedgerWriteFrame ]_vars

\* the second replicate's block of a year has just been written beside the
\* first replicate's
C12_Witness ==
    /\ cpc = "drop"
    /\ n_reps = 2
    /\ rep = 1
    /\ cost_df[int_yr][1][1] > 0
    /\ cost_df[int_yr][1][N + 1] > 0

(***************************************************************************)
(* Claims about the switches, the mean branch and the RFI                  *)
(***************************************************************************)
AllSwitchesOff == \A k \in DOMAIN uncertainty_dict : uncertainty_dict[k] = 0

\* C13: with the five uncertainty switches off a run of indicator_master
\* completes (it never aborts), so that two runs over identical inputs both
\* return an IndicatorSet, the same one.
C13_DeterministicRunsComplete ==
    AllSwitchesOff => ipc # "error"

\* the mean over the scenario ids in scen_ids of the total cover of (r, y)
MeanTotalCover(r, y) ==
    SumTo([k \in 1..Len(scen_ids) |->
              total_cover(results_data.total_taxa_cover, scen_ids[k], r, y)],
          Len(scen_ids)) \div Len(scen_ids)

\* C14: with ecol_uncert = 0, reef_condition_rme returns an IndicatorSet of
\* nsims simulations, each holding the trajectory averaged over the scenario
\* ids in scen_ids.
C14_MeanTrajectoryReturned ==
    (uncertainty_dict.ecol_uncert = 0 /\ ipc \in {"rti", "rfi", "done", "error"}) =>
      /\ Returned
      /\ ecol_indicators.nsims = nsims
      /\ \A c \in Cells(nsims) :
            ecol_indicators.total_cover[c[1]][c[2]][c[3]] = MeanTotalCover(c[2], c[3])

CellRFI(c) == ecol_indicators.RFI[c[1]][c[2]][c[3]]
CellCover(c) == ecol_indicators.total_cover[c[1]][c[2]][c[3]]

\* x <= y between two RFI values
RfiLeq(x, y) == x.micro < y.micro \/ (x.micro = y.micro /\ x.frac <= y.frac)

\* 0.01*(intercept2 + slope2*(intercept1 + slope1*total_cover*100)) worked
\* out with the structural complexity split at 10^-4 instead of 10^-3
RfiFormula(tc, intercept1, intercept2) ==
    LET sc == (10 * intercept1) + (7476 * tc)
        a  == sc \div 1000
        b  == sc % 1000
        x  == (18833 * a) + ((18833 * b) \div 1000)
    IN  [ micro |-> (x \div 10) + (1000 * intercept2),
          frac  |-> ((x % 10) * 1000) + ((18833 * b) % 1000) ]

\* C15: every RFI value is 0.01*(intercept2 + slope2*(intercept1 + slope1 *
\* total_cover*100)), unclipped, and a cell with more total cover than
\* another has the larger RFI.
C15_RfiLinearUnclipped ==
    ipc = "done" =>
      /\ \A c \in Cells(nsims) :
            CellRFI(c) = RfiFormula(CellCover(c), params.intercept1, params.intercept2)
      /\ \A a \in Cells(nsims), b \in Cells(nsims) :
            /\ CellCover(a) <= CellCover(b) => RfiLeq(CellRFI(a), CellRFI(b))
            /\ CellCover(a) < CellCover(b) => ~RfiLeq(CellRFI(b), CellRFI(a))

\* rfi_rme has returned two cells of different cover, the higher with an RFI
\* above 1 and strictly above the other's
C15_Witness ==
    /\ ipc = "done"
    /\ \E a \in Cells(nsims), b \in Cells(nsims) :
          /\ CellCover(a) < CellCover(b)
          /\ CellRFI(b).micro > 1000000
          /\ ~RfiLeq(CellRFI(b), CellRFI(a))

(***************************************************************************)
(* Claims about the setup-cost step                                        *)
(***************************************************************************)
\* the iteration is of an intervention year after the first (line 195)
AfterFirstYear == int_yr > int_years[1]

\* the device count line 189 injected in this iteration
FullCount == SelectRows(ID_key, int_yr, rep + 1)[1].number_of_1YO_corals

\* the values np.array(cost) of line 51 holds for draw d: the ledger block of
\* (int_yr, rep) read back in memory order, <<Cost, setupCost>> of draw d
LedgerPairAt(ledger, yr, r, d) ==
    LET cell(k) == IF k <= N THEN ledger[yr][1][r * N + k]
                   ELSE ledger[yr][3][r * N + (k - N)]
    IN  <<cell((2 * d) - 1), cell(2 * d)>>

LedgerPair(ledger, d) == LedgerPairAt(ledger, int_yr, rep, d)

\* C16: in an intervention year after the first, the setup-cost step leaves
\* the Cost of both sub-models as sampled with the full device count and
\* sets the setupCost to 0 or to the sample taken with the incremental
\* count; these are the values the ledger write stores.
C16_OperationalCostKept ==
    [][ /\ (cpc = "setup" /\ cpc' = "write" /\ AfterFirstYear) =>
             /\ factors_df_dep'.Cost = factors_df_dep.Cost
             /\ factors_df_prod'.Cost = factors_df_prod.Cost
             /\ \A d \in 1..N :
                   /\ factors_df_dep'.Cost[d] = UnitRate(evaluator, 1, d) * FullCount
                   /\ factors_df_prod'.Cost[d] = UnitRate(evaluator, 3, d) * FullCount
                   /\ factors_df_dep'.setupCost[d] =
                        IF factors_df_dep'.num_devices <= 0 THEN 0
                        ELSE UnitRate(evaluator, 2, d) * factors_df_dep'.num_devices
                   /\ factors_df_prod'.setupCost[d] =
                        IF factors_df_dep'.num_devices <= 0 THEN 0
                        ELSE UnitRate(evaluator, 4, d) * factors_df_prod'.num_devices
        /\ (cpc = "write" /\ AfterFirstYear) =>
             \A d \in 1..N :
               LedgerPair(cost_df', d) =
                 << 10 * (factors_df_dep.Cost[d] + factors_df_prod.Cost[d]),
                    10 * (factors_df_dep.setupCost[d] + factors_df_prod.setupCost[d]) >>
      ]_vars

\* the ledger of a later year was written after a second sample taken with
\* an increment smaller than the full count
C16_Witness ==
    /\ cpc = "drop"
    /\ AfterFirstYear
    /\ factors_df_dep.num_devices > 0
    /\ factors_df_dep.num_devices < FullCount
    /\ factors_df_dep.Cost[1] = UnitRate(evaluator, 1, 1) * FullCount
    /\ factors_df_dep.setupCost[1] = UnitRate(evaluator, 2, 1) * factors_df_dep.num_devices

\* the key table holds the rows of the scenario being processed only
SingleScenario == \A k \in DOMAIN ID_key : ID_key[k].ID = scen_id

\* corals deployed by the scenario being processed in year yr, replicate r
CoralsOf(yr, r) == KeyRow(scen_id, yr, r).number_of_1YO_corals

\* the intervention year of the scenario that immediately precedes int_yr
PrecedingYear == Max({y \in YearsOf(scen_id) : y < int_yr})

\* C17: after the setup-cost step of an intervention year after the first,
\* the device-count factor of both designs is the corals deployed in that
\* year minus the corals deployed in the immediately preceding intervention
\* year, same scenario and replicate (stated for a table that holds one
\* scenario; the selection of rows across scenarios is the subject of C18).
C17_IncrementFromPrecedingYear ==
    (cpc = "write" /\ AfterFirstYear /\ SingleScenario) =>
      LET increment == CoralsOf(int_yr, rep + 1) - CoralsOf(PrecedingYear, rep + 1)
      IN  /\ factors_df_dep.num_devices = increment
          /\ factors_df_prod.num_devices = increment

\* C18: while scenario s is processed, the replicate count is that of the
\* rows of s, and the rows that supply the injected constants (line 189) and
\* the previous year's device count (line 201) are rows of s.
C18_OnlyRowsOfTheScenario ==
    NComputed =>
      /\ n_reps = Max({row.rep : row \in {x \in Range(ID_key) : x.ID = scen_id}})
      /\ cpc = "setup" => SelectRows(ID_key, int_yr, rep + 1)[1].ID = scen_id
      /\ (cpc = "write" /\ AfterFirstYear) => PrevRows[1].ID = scen_id

\* the first (earliest) intervention year of the scenario being processed
FirstYear == CHOOSE y \in Range(int_years) : \A z \in Range(int_years) : y <= z

\* <<Cost, setupCost>> of draw d, both sub-models, sampled in full for count
\* devices, in tenths
FullSample(count, d) ==
    << 10 * ((UnitRate(evaluator, 1, d) + UnitRate(evaluator, 3, d)) * count),
       10 * ((UnitRate(evaluator, 2, d) + UnitRate(evaluator, 4, d)) * count) >>

\* C19: in an iteration of the scenario's first intervention year, whatever
\* the replicate, the setup-cost step is not executed: the designs pass from
\* the full sample to the ledger write unchanged, the write stores the full
\* operational and setup cost, and so does the ledger that is written out.
C19_FirstYearFullCost ==
    [][ /\ (cpc = "setup" /\ int_yr = FirstYear) =>
             /\ cpc' = "write"
             /\ UNCHANGED <<factors_df_dep, factors_df_prod>>
        /\ (cpc = "write" /\ int_yr = FirstYear) =>
             /\ factors_df_dep.num_devices = FullCount
             /\ factors_df_prod.num_devices = FullCount
             /\ \A d \in 1..N : LedgerPair(cost_df', d) = FullSample(FullCount, d)
        /\ cpc = "to_csv" =>
             \A r \in 0..(n_reps - 1), d \in 1..N :
               LedgerPairAt(csv'[scen_id], FirstYear, r, d) =
                 FullSample(SelectRows(ID_key, FirstYear, r + 1)[1].number_of_1YO_corals, d)
      ]_vars

\* the ledger of a scenario with a later year has been written out, holding
\* a zero setup cost in the later year and a non-zero one in the first year
C19_Witness ==
    /\ cpc = "scen"
    /\ scen_id \in DOMAIN csv
    /\ \E y \in DOMAIN csv[scen_id] :
          /\ y > FirstYear
          /\ LedgerPairAt(csv[scen_id], y, 0, 1)[2] = 0
          /\ LedgerPairAt(csv[scen_id], FirstYear, 0, 1)[2] > 0

\* C20: when the full-cost sample of a (year, replicate) has been taken, the
\* num_devices factor of both designs is the coral count the scenario being
\* processed deploys in that year and replicate, whatever an earlier
\* iteration's setup-cost step left in the design, and the first sample of a
\* scenario starts from a freshly sampled design.
C20_FullSampleUsesYearCount ==
    /\ cpc = "setup" =>
         \A row \in Range(ID_key) :
           (row.ID = scen_id /\ row.intervention_years = int_yr /\ row.rep = rep + 1) =>
             /\ factors_df_dep.num_devices = row.number_of_1YO_corals
             /\ factors_df_prod.num_devices = row.number_of_1YO_corals
    /\ (cpc = "sample" /\ int_yr_idx = 1 /\ rep = 0) =>
         /\ factors_df_dep = FreshDep
         /\ factors_df_prod = FreshProd

\* the same, for key tables that hold one scenario
C20_SingleScenarioTables == SingleScenario => C20_FullSampleUsesYearCount

(***************************************************************************)
(* Claims about the tier credits                                           *)
(***************************************************************************)
\* the number of the five metrics of mv that are >= the thresholds of tier t
\* (a nan metric meets no threshold)
NumMet(mv, rci_crit, t) ==
    Cardinality({m \in 1..5 : mv[m] # NaN /\ mv[m] >= rci_crit[t][m]})

\* the credit the rule gives tier t: its value with 3 or more metrics met
TierCredit(mv, rci_crit, t) ==
    IF NumMet(mv, rci_crit, t) >= 3 THEN <<900, 700, 500, 300>>[t] ELSE 0

\* C21: a tier contributes its value to the running sum of a cell exactly
\* when at least 3 of the 5 metrics are >= the tier's thresholds and 0
\* otherwise, each tier by itself; the category returned is the one the
\* masked assignments give the sum of the four credits.
C21_TierCreditRule ==
    Returned =>
      \A c \in Cells(nsims) :
        \A mv \in {CellMetrics(c)} :
          \A credit \in {[t \in 1..4 |-> TierCredit(mv, params.rci_crit, t)]} :
            /\ \A t \in 1..4 : curr_mask(mv, params.rci_crit, t) = credit[t]
            /\ CreditSum(mv, params.rci_crit) = credit[1] + credit[2] + credit[3] + credit[4]
            /\ CellRCI(c) = MapCategory(credit[1] + credit[2] + credit[3] + credit[4])

\* a cell was classified that meets exactly 3 thresholds of one tier and
\* exactly 2 of another
C21_Witness ==
    /\ Returned
    /\ \E c \in Cells(nsims) : \E t \in 1..4, u \in 1..4 :
          /\ NumMet(CellMetrics(c), params.rci_crit, t) = 3
          /\ NumMet(CellMetrics(c), params.rci_crit, u) = 2

\* C22: a cell is classified 0.1 exactly when it is credited on none of the
\* four tiers; a cell that is 0 on all five metrics gets 0.1 when all
\* thresholds are positive.
C22_NoCreditIsLowest ==
    Returned =>
      \A c \in Cells(nsims) :
        \A mv \in {CellMetrics(c)} :
            /\ CellRCI(c) = 100 <=> (\A t \in 1..4 : NumMet(mv, params.rci_crit, t) < 3)
            /\ ((\A m \in 1..5 : mv[m] = 0)
                  /\ (\A t \in 1..4, m \in 1..5 : params.rci_crit[t][m] > 0))
                 => CellRCI(c) = 100

\* a cell that is 0 on all five metrics was classified 0.1
C22_Witness ==
    /\ Returned
    /\ \E c \in Cells(nsims) :
          /\ \A m \in 1..5 : CellMetrics(c)[m] = 0
          /\ CellRCI(c) = 100

(***************************************************************************)
(* Claims about the criteria matrix                                        *)
(***************************************************************************)
\* indicator_params has returned
ParamsReturned == params # NoParams

ExpertMode == uncertainty_dict.expert_uncert = 1

\* C23: the criteria matrix indicator_params returns has 4 rows (tiers) and
\* 5 columns (metrics) in the median and in the sampling mode; in the
\* sampling mode rci_crit[tier, metric] is the threshold of that tier that
\* the expert drawn for that metric gave.
C23_CriteriaMatrixIsTierByMetric ==
    ParamsReturned =>
      /\ Len(params.rci_crit) = 4
      /\ \A t \in 1..4 : Len(params.rci_crit[t]) = 5
      /\ ExpertMode =>
           \A t \in 1..4, m \in 1..5 :
             params.rci_crit[t][m] = Response(params.experts[m], t - 1, m - 1)

GroupCount == Len(results_data.total_taxa_cover[1])

PastRme == ipc \notin {"params", "rme"}

\* C25: when the number of taxon groups of the cover array is neither 6 nor
\* 12, reef_condition_rme ends in an error and returns no indicators.
C25_UnsupportedGroupCountAborts ==
    (GroupCount \notin {6, 12} /\ PastRme) => (ipc = "error" /\ ~Returned)

\* C26: when the juvenile baseline is zero the computation ends in an error;
\* no indicator set is returned with a non-finite relative juvenile value.
C26_ZeroBaselineIsAnError ==
    /\ (ParamsReturned /\ params.maxcoraljuv = 0 /\ PastRme) => (ipc = "error" /\ ~Returned)
    /\ Returned =>
         \A i \in 1..ecol_indicators.nsims, r \in Reefs, y \in Years :
            IsFinite(ecol_indicators.coraljuv_relative[i][r][y])

(***************************************************************************)
(* Claims about replicate sampling                                         *)
(***************************************************************************)
\* simulation i of the indicator set is what scenario s of the raw arrays gives
SimulationIsScenario(i, s) ==
    \A r \in Reefs, y \in Years :
      /\ ecol_indicators.total_cover[i][r][y] = total_cover(results_data.total_taxa_cover, s, r, y)
      /\ ecol_indicators.shelter_volume[i][r][y] =
             shelterVolume(results_data.relative_shelter_volume[s][r][y])
      /\ ecol_indicators.coraljuv_relative[i][r][y] =
             coraljuv_relative(results_data.nb_coral_juv[s][r][y], params.maxcoraljuv)
      /\ ecol_indicators.COTSrel_complementary[i][r][y] =
             COTSrel_complementary(results_data.cots[s][r][y])
      /\ ecol_indicators.rubble_complementary[i][r][y] =
             rubble_complementary(results_data.rubble[s][r][y])
      /\ ecol_indicators.RCI[i][r][y] =
             reefcondition(MetricVec(ecol_indicators, i, r, y), params.rci_crit)

\* C28: with ecol_uncert = 1 the arrays returned hold exactly nsims
\* simulations, and every simulation has its five metrics and its category
\* from one scenario id, a member of scen_ids.
C28_EachSimulationFromOneScenario ==
    (Returned /\ uncertainty_dict.ecol_uncert = 1) =>
      /\ ecol_indicators.nsims = nsims
      /\ \A a \in {ecol_indicators.total_cover, ecol_indicators.shelter_volume,
                    ecol_indicators.coraljuv_relative, ecol_indicators.COTSrel_complementary,
                    ecol_indicators.rubble_complementary, ecol_indicators.RCI} :
            DOMAIN a = 1..nsims
      /\ \A i \in 1..nsims : \E s \in Range(scen_ids) : SimulationIsScenario(i, s)

\* two simulations were drawn from two scenarios that differ, in the order
\* opposite to the id list
C28_Witness ==
    /\ Returned
    /\ uncertainty_dict.ecol_uncert = 1
    /\ nsims = 2
    /\ curr_eco_sim = <<2, 1>>
    /\ ~SimulationIsScenario(1, 1)
    /\ ~SimulationIsScenario(2, 2)

\* one scenario id backs both simulations
C28_WitnessRepeatedDraw ==
    /\ Returned
    /\ uncertainty_dict.ecol_uncert = 1
    /\ nsims = 2
    /\ scen_ids = <<1, 2>>
    /\ curr_eco_sim = <<2, 2>>

(***************************************************************************)
(* Claims about the aggregator                                             *)
(***************************************************************************)
\* the next step calls a transform on the intervention metrics
CallsOnIntervention == apc = "iv" /\ met_queue # <<>>
\* the next step calls a transform on the counterfactual metrics
CallsOnCounterfactual == apc = "cf"

RciCategories == {100, 300, 500, 700, 900}

\* the sim columns of the table after the step, as [row][simulation]
SimColumnsAfter == [r \in AggRows |-> [i \in 1..nsims |-> data_store'.sims[SimNames[i]][r]]]

\* C27: a call of a transform leaves the indicator sets as they were, and
\* raw_rci, whatever was applied before it, returns category values.
C27_TransformsLeaveIndicatorsUnchanged ==
    [][ (CallsOnIntervention \/ CallsOnCounterfactual) =>
          /\ metrics_data_iv' = metrics_data_iv
          /\ metrics_data_cf' = metrics_data_cf
          /\ (Head(met_queue) = "raw_rci") =>
                \A r \in AggRows, i \in 1..nsims : SimColumnsAfter[r][i] \in RciCategories
      ]_vars

\* the file of this name was written by the step with this array in its sim
\* columns after the template's columns, and no other file was touched
FileWritten(name, out) ==
    /\ name \in DOMAIN files'
    /\ files'[name].columns = TemplateColumns \o new_cols(nsims)
    /\ DOMAIN files'[name].sims = Range(new_cols(nsims))
    /\ \A r \in AggRows, i \in 1..nsims : files'[name].sims[SimNames[i]][r] = out[r][i]
    /\ \A k \in (DOMAIN files) \ {name} : k \in DOMAIN files' /\ files'[k] = files[k]

\* C29: at the start of every intervention iteration the base table has
\* exactly the template's columns, and every file written holds, in its sim
\* columns, what the transform returned for the metrics of the intervention
\* being processed.
C29_SimColumnsDroppedBetweenInterventions ==
    /\ [](apc = "loop" =>
            (data_store.columns = TemplateColumns /\ DOMAIN data_store.sims = {}))
    /\ [][
           /\ (CallsOnIntervention /\ apc' = "cf") =>
               FileWritten(filename(iv_idx, "intervention", Head(met_queue)),
                           met_func(Head(met_queue), metrics_data_iv).out)
           /\ CallsOnCounterfactual =>
               FileWritten(filename(iv_idx, "counterfactual", Head(met_queue)),
                           met_func(Head(met_queue), metrics_data_cf).out)
         ]_vars

\* the second intervention has its first file, which differs in its sim
\* columns from the first intervention's file of the same transform
C29_Witness ==
    /\ apc = "cf"
    /\ iv_idx = 2
    /\ met_queue = metrics
    /\ filename(1, "intervention", Head(metrics)) \in DOMAIN files
    /\ filename(2, "intervention", Head(metrics)) \in DOMAIN files
    /\ files[filename(2, "intervention", Head(metrics))].sims
          # files[filename(1, "intervention", Head(metrics))].sims
    /\ Len(id_key_df_store) = 1

\* x clamped into [rfi_thresholds[0], rfi_thresholds[1]] of the Python list
ClampedRfi(x) ==
    IF x < rfi_thresholds[1] THEN rfi_thresholds[1]
    ELSE IF x > rfi_thresholds[2] THEN rfi_thresholds[2] ELSE x

\* C30: the rfi transform with its default thresholds returns, and returns
\* every RFI value clamped into [0.74, 29.91].
C30_RfiReturnsClampedValues ==
    [][
         /\ (CallsOnIntervention /\ Head(met_queue) = "rfi") =>
             /\ apc' = "cf"
             /\ \A r \in AggRows, i \in 1..nsims :
                   SimColumnsAfter[r][i] = ClampedRfi(metrics_data_iv.RFI[i][r])
         /\ (CallsOnCounterfactual /\ Head(met_queue) = "rfi") =>
             /\ apc' = "iv"
             /\ \A r \in AggRows, i \in 1..nsims :
                   SimColumnsAfter[r][i] = ClampedRfi(metrics_data_cf.RFI[i][r])
      ]_vars

====
